---- MODULE Spec2Model ----
(***************************************************************************)
(* Model of scripts/compare_apis.py: the APIComparator class               *)
(* (compare_endpoint, run_test_suite, export_report) and main().           *)
(*                                                                         *)
(* A response body is modelled as its text, given as a syntax tree that    *)
(* keeps the order of array elements and object members and keeps          *)
(* duplicate members; json parsing turns it into a Python value (an        *)
(* object becomes a dict: member order is forgotten and the last duplicate *)
(* member wins).  Text that is not JSON has kind "raw".                    *)
(***************************************************************************)
EXTENDS Integers, Sequences, FiniteSets, TLC

VARIABLES caller, pc, call, results, endpoints, i, base, cur,
          express_resp, fastify_resp, requests, ret, report, exit_code

vars == <<caller, pc, call, results, endpoints, i, base, cur,
          express_resp, fastify_resp, requests, ret, report, exit_code>>

(***************************************************************************)
(* Bounds                                                                  *)
(***************************************************************************)
MaxLen == 2

MaxEndpoints == 2

MaxLog == 3

(***************************************************************************)
(* Generic helpers                                                         *)
(***************************************************************************)
Range(s) == {s[n] : n \in DOMAIN s}

SeqsUpTo(S, n) == UNION {[1..k -> S] : k \in 0..n}

(***************************************************************************)
(* Body texts                                                              *)
(***************************************************************************)
Atoms == {"1", "2", "\"1\""}

Keys == {"a", "b"}

AtomText(tok) == [kind |-> "atom", atom |-> tok, items |-> <<>>]

RawText(s) == [kind |-> "raw", atom |-> s, items |-> <<>>]

ArrayText(vals) ==
  [kind |-> "array", atom |-> "",
   items |-> [n \in DOMAIN vals |-> [key |-> "", val |-> vals[n]]]]

ObjectText(members) == [kind |-> "object", atom |-> "", items |-> members]

AtomTexts == {AtomText(tok) : tok \in Atoms}

FlatBodies ==
  AtomTexts
  \cup {ArrayText(vals) : vals \in SeqsUpTo(AtomTexts, MaxLen)}
  \cup {ObjectText(ms) : ms \in SeqsUpTo([key : Keys, val : AtomTexts], MaxLen)}

Arr12 == ArrayText(<<AtomText("1"), AtomText("2")>>)

Arr21 == ArrayText(<<AtomText("2"), AtomText("1")>>)

ObjA(v) == ObjectText(<<[key |-> "a", val |-> v]>>)

NestedBodies ==
  { ArrayText(<<Arr12, AtomText("2")>>), ArrayText(<<AtomText("2"), Arr21>>),
    ObjA(Arr12), ObjA(Arr21), ObjA(ObjA(AtomText("1"))),
    ArrayText(<<ObjA(AtomText("1")), ObjA(AtomText("2"))>>),
    ArrayText(<<ObjA(AtomText("2")), ObjA(AtomText("1"))>>) }

RawBodies == {RawText("Internal Server Error"), RawText("<html>")}

Bodies == FlatBodies \cup NestedBodies \cup RawBodies

(***************************************************************************)
(* response.json(): json parsing of a body text into a Python value        *)
(***************************************************************************)
JsonOk(text) == text.kind # "raw"

TokenType(tok) == IF tok = "\"1\"" THEN "str" ELSE "int"

TokenVal(tok) == IF tok = "\"1\"" THEN "1" ELSE tok

LastIndex(items, k) ==
  CHOOSE n \in DOMAIN items :
    /\ items[n].key = k
    /\ \A m \in DOMAIN items : items[m].key = k => m <= n

RECURSIVE Loads(_)
Loads(text) ==
  IF text.kind = "atom"
  THEN [type |-> TokenType(text.atom), val |-> TokenVal(text.atom),
        elems |-> <<>>, fields |-> {}]
  ELSE IF text.kind = "array"
  THEN [type |-> "list", val |-> "",
        elems |-> [n \in DOMAIN text.items |-> Loads(text.items[n].val)],
        fields |-> {}]
  ELSE [type |-> "dict", val |-> "", elems |-> <<>>,
        fields |-> {[key |-> k,
                     val |-> Loads(text.items[LastIndex(text.items, k)].val)] :
                    k \in {text.items[n].key : n \in DOMAIN text.items}}]

(***************************************************************************)
(* DeepDiff(t1, t2, ignore_order=True): the set of report keys             *)
(***************************************************************************)
DictKeys(v) == {f.key : f \in v.fields}

DictGet(v, k) == (CHOOSE f \in v.fields : f.key = k).val

RECURSIVE DeepHash(_)
DeepHash(v) ==
  [type |-> v.type, val |-> v.val,
   elems |-> {DeepHash(v.elems[n]) : n \in DOMAIN v.elems},
   fields |-> {[key |-> f.key, val |-> DeepHash(f.val)] : f \in v.fields}]

RECURSIVE DeepDiffOrdered(_, _)
DeepDiffOrdered(t1, t2) ==
  IF t1.type # t2.type THEN {"type_changes"}
  ELSE IF t1.type = "dict"
  THEN (IF DictKeys(t1) \ DictKeys(t2) # {}
        THEN {"dictionary_item_removed"} ELSE {})
       \cup (IF DictKeys(t2) \ DictKeys(t1) # {}
             THEN {"dictionary_item_added"} ELSE {})
       \cup UNION {DeepDiffOrdered(DictGet(t1, k), DictGet(t2, k)) :
                   k \in DictKeys(t1) \cap DictKeys(t2)}
  ELSE IF t1.type = "list"
  THEN (IF Len(t1.elems) > Len(t2.elems)
        THEN {"iterable_item_removed"} ELSE {})
       \cup (IF Len(t2.elems) > Len(t1.elems)
             THEN {"iterable_item_added"} ELSE {})
       \cup UNION {DeepDiffOrdered(t1.elems[n], t2.elems[n]) :
                   n \in DOMAIN t1.elems \cap DOMAIN t2.elems}
  ELSE IF t1.val # t2.val THEN {"values_changed"} ELSE {}

RECURSIVE DeepDiff(_, _)
DeepDiff(t1, t2) ==
  IF t1.type # t2.type THEN {"type_changes"}
  ELSE IF t1.type = "dict"
  THEN (IF DictKeys(t1) \ DictKeys(t2) # {}
        THEN {"dictionary_item_removed"} ELSE {})
       \cup (IF DictKeys(t2) \ DictKeys(t1) # {}
             THEN {"dictionary_item_added"} ELSE {})
       \cup UNION {DeepDiff(DictGet(t1, k), DictGet(t2, k)) :
                   k \in DictKeys(t1) \cap DictKeys(t2)}
  ELSE IF t1.type = "list"
  THEN LET h1 == {DeepHash(t1.elems[n]) : n \in DOMAIN t1.elems}
           h2 == {DeepHash(t2.elems[n]) : n \in DOMAIN t2.elems}
       IN  (IF h1 \ h2 # {} THEN {"iterable_item_removed"} ELSE {})
           \cup (IF h2 \ h1 # {} THEN {"iterable_item_added"} ELSE {})
  ELSE IF t1.val # t2.val THEN {"values_changed"} ELSE {}

(***************************************************************************)
(* compare_endpoint: body, header and status comparison                    *)
(***************************************************************************)
BodyCompare(etext, ftext) ==
  IF JsonOk(etext) /\ JsonOk(ftext)
  THEN LET body_diff == DeepDiff(Loads(etext), Loads(ftext))
       IN  [body_match |-> Cardinality(body_diff) = 0,
            body_diff |-> [kind |-> "DeepDiff", keys |-> body_diff]]
  ELSE [body_match |-> etext = ftext,
        body_diff |-> IF etext = ftext
                      THEN [kind |-> "None"]
                      ELSE [kind |-> "dict", keys |-> {"text_diff"}]]

HeaderNames == {"content-type", "content-length", "date"}

HeaderValues == {"x", "y"}

HeaderSets == UNION {[D -> HeaderValues] : D \in SUBSET HeaderNames}

HeaderGet(headers, h) == IF h \in DOMAIN headers THEN <<headers[h]>> ELSE <<>>

all_headers == <<"content-type", "content-length", "date">>

relevant_headers == <<"content-type", "content-length">>

HeaderDiff(eh, fh) ==
  [h \in {x \in Range(relevant_headers) : HeaderGet(eh, x) # HeaderGet(fh, x)}
     |-> [express |-> HeaderGet(eh, h), fastify |-> HeaderGet(fh, h)]]

Verbatim(m) == m

Upper(m) == IF m \in {"get", "GET"} THEN "GET" ELSE "POST"

SuccessStatusOnly(status_match, body_match) == status_match

Success(status_match, body_match) == status_match /\ body_match

CompareResult(method, path, e, f) ==
  LET status_match == e.status = f.status
      b == BodyCompare(e.text, f.text)
      header_diff == HeaderDiff(e.headers, f.headers)
  IN  [method |-> Upper(method),
       path |-> path,
       status_match |-> status_match,
       body_match |-> b.body_match,
       headers_match |-> Cardinality(DOMAIN header_diff) = 0,
       express_status |-> e.status,
       fastify_status |-> f.status,
       body_diff |-> b.body_diff,
       header_diff |-> header_diff,
       success |-> Success(status_match, b.body_match)]

ErrorResult(method, path, e) ==
  [method |-> Upper(method), path |-> path, success |-> FALSE, error |-> e]

(***************************************************************************)
(* What the two servers can answer: a response, or a transport failure     *)
(* (requests.exceptions.RequestException) carrying its message             *)
(***************************************************************************)
Resp(status, text, headers) ==
  [ok |-> TRUE, status |-> status, text |-> text, headers |-> headers]

Failure(e) == [ok |-> FALSE, error |-> e]

NoResponse == <<>>

TransportErrors == {"ConnectTimeout", "ConnectionError"}

Failures == {Failure(e) : e \in TransportErrors}

ObjAB ==
  ObjectText(<<[key |-> "a", val |-> AtomText("1")],
               [key |-> "b", val |-> AtomText("2")]>>)

ObjBA ==
  ObjectText(<<[key |-> "b", val |-> AtomText("2")],
               [key |-> "a", val |-> AtomText("1")]>>)

ObjAB2 ==
  ObjectText(<<[key |-> "a", val |-> AtomText("1")],
               [key |-> "b", val |-> AtomText("1")]>>)

JsonHeaders == [h \in {"content-type", "date"} |-> "x"]

TextHeaders == [h \in {"content-type", "date"} |-> "y"]

SuiteResponses ==
  { Resp(200, ObjAB, JsonHeaders), Resp(200, ObjBA, JsonHeaders),
    Resp(200, ObjAB2, JsonHeaders),
    Resp(500, RawText("Internal Server Error"), TextHeaders) }

HeaderResponses ==
  {Resp(s, b, h) : s \in {200, 404},
                   b \in {ObjAB, ObjBA, RawText("<html>")},
                   h \in HeaderSets}

BodyResponses == {Resp(200, b, JsonHeaders) : b \in Bodies}

CompareResponses == HeaderResponses \cup BodyResponses

(***************************************************************************)
(* Endpoint descriptors of a config file and arguments of direct calls     *)
(***************************************************************************)
Descriptors ==
  { [k \in {"path"} |-> "/a"],
    [method |-> "post", path |-> "/b"],
    [k \in {"method"} |-> "GET"] }

EndpointLists == SeqsUpTo(Descriptors, MaxEndpoints)

DirectCalls == {[method |-> "get", path |-> "/a"],
                [method |-> "POST", path |-> "/b"]}

(***************************************************************************)
(* State after construction                                                *)
(***************************************************************************)
Fresh ==
  /\ results = <<>>
  /\ endpoints = <<>>
  /\ i = 0
  /\ base = 0
  /\ express_resp = NoResponse
  /\ fastify_resp = NoResponse
  /\ requests = <<>>
  /\ ret = "none"
  /\ report = <<>>
  /\ exit_code = <<>>

Init ==
  /\ caller \in {"main", "api"}
  /\ pc = IF caller = "main" THEN "main" ELSE "idle"
  /\ call = "none"
  /\ cur = [method |-> "", path |-> ""]
  /\ Fresh

InitCompare ==
  /\ caller = "api"
  /\ pc = "express"
  /\ call = "compare"
  /\ cur \in DirectCalls
  /\ Fresh

(***************************************************************************)
(* Control transfer                                                        *)
(***************************************************************************)
Raise(exc) ==
  /\ ret' = exc
  /\ IF caller = "main"
     THEN pc' = "exited" /\ exit_code' = <<1>>
     ELSE pc' = "idle" /\ UNCHANGED exit_code

ReturnFromCompare ==
  IF call = "suite"
  THEN pc' = "loop" /\ i' = i + 1 /\ UNCHANGED ret
  ELSE pc' = "idle" /\ UNCHANGED i /\ ret' = "result"

Passed(rs) == Cardinality({n \in DOMAIN rs : rs[n].success})

(***************************************************************************)
(* main(): load the config, construct the comparator, run the suite        *)
(***************************************************************************)
MainStart ==
  /\ pc = "main"
  /\ \E eps \in EndpointLists : endpoints' = eps
  /\ results' = <<>>
  /\ call' = "suite"
  /\ base' = 0
  /\ i' = 1
  /\ requests' = <<>>
  /\ pc' = "loop"
  /\ UNCHANGED <<caller, cur, express_resp, fastify_resp, ret, report, exit_code>>

(***************************************************************************)
(* Calls made by a program that uses the comparator as a library           *)
(***************************************************************************)
CallRunTestSuite ==
  /\ pc = "idle"
  /\ \E eps \in EndpointLists :
       /\ Len(results) + Len(eps) <= MaxLog
       /\ endpoints' = eps
  /\ call' = "suite"
  /\ base' = Len(results)
  /\ i' = 1
  /\ requests' = <<>>
  /\ ret' = "none"
  /\ pc' = "loop"
  /\ UNCHANGED <<caller, results, cur, express_resp, fastify_resp, report, exit_code>>

CallCompareEndpoint ==
  /\ pc = "idle"
  /\ Len(results) < MaxLog
  /\ \E c \in DirectCalls : cur' = c
  /\ call' = "compare"
  /\ endpoints' = <<>>
  /\ base' = Len(results)
  /\ i' = 0
  /\ requests' = <<>>
  /\ ret' = "none"
  /\ express_resp' = NoResponse
  /\ fastify_resp' = NoResponse
  /\ pc' = "express"
  /\ UNCHANGED <<caller, results, report, exit_code>>

(***************************************************************************)
(* run_test_suite                                                          *)
(***************************************************************************)
KeyErrorCaught ==
  /\ results' = Append(results, ErrorResult("GET", "", "KeyError"))
  /\ pc' = "loop"
  /\ i' = i + 1
  /\ UNCHANGED <<ret, exit_code, cur, express_resp, fastify_resp>>

KeyErrorRaised ==
  /\ Raise("KeyError")
  /\ UNCHANGED <<results, i, cur, express_resp, fastify_resp>>

NextEndpoint ==
  /\ pc = "loop"
  /\ i <= Len(endpoints)
  /\ LET endpoint == endpoints[i]
     IN  IF "path" \notin DOMAIN endpoint
         THEN KeyErrorRaised
         ELSE /\ cur' = [method |-> IF "method" \in DOMAIN endpoint
                                    THEN endpoint.method ELSE "GET",
                         path |-> endpoint.path]
              /\ express_resp' = NoResponse
              /\ fastify_resp' = NoResponse
              /\ pc' = "express"
              /\ UNCHANGED <<results, i, ret, exit_code>>
  /\ UNCHANGED <<caller, call, endpoints, base, requests, report>>

Summarize ==
  /\ pc = "loop"
  /\ i > Len(endpoints)
  /\ LET total == Len(results)
         passed == Passed(results)
         failed == total - passed
     IN  IF total = 0
         THEN Raise("ZeroDivisionError")
         ELSE /\ ret' = IF failed = 0 THEN "True" ELSE "False"
              /\ pc' = IF caller = "main" THEN "export" ELSE "idle"
              /\ UNCHANGED exit_code
  /\ UNCHANGED <<caller, call, results, endpoints, i, base, cur,
                 express_resp, fastify_resp, requests, report>>

(***************************************************************************)
(* compare_endpoint                                                        *)
(***************************************************************************)
ExceptNoAppend(e) ==
  /\ UNCHANGED results
  /\ ReturnFromCompare

Except(e) ==
  /\ results' = Append(results, ErrorResult(cur.method, cur.path, e))
  /\ ReturnFromCompare

ExpressOutcomeRetry(out) ==
  IF out.ok
  THEN pc' = "fastify" /\ UNCHANGED <<results, i, ret>>
  ELSE pc' = "express" /\ UNCHANGED <<results, i, ret>>

ExpressOutcome(out) ==
  IF out.ok
  THEN pc' = "fastify" /\ UNCHANGED <<results, i, ret>>
  ELSE Except(out.error)

ExpressRequest(RS) ==
  /\ pc = "express"
  /\ \E out \in RS \cup Failures :
       /\ express_resp' = out
       /\ ExpressOutcome(out)
  /\ requests' = Append(requests, [idx |-> i, server |-> "express",
                                   at |-> Len(results),
                                   ok |-> express_resp'.ok])
  /\ UNCHANGED <<caller, call, endpoints, base, cur, fastify_resp,
                 report, exit_code>>

FastifyRequest(RS) ==
  /\ pc = "fastify"
  /\ \E out \in RS \cup Failures :
       /\ fastify_resp' = out
       /\ IF out.ok
          THEN /\ results' = Append(results,
                     CompareResult(cur.method, cur.path, express_resp, out))
               /\ ReturnFromCompare
          ELSE Except(out.error)
  /\ requests' = Append(requests, [idx |-> i, server |-> "fastify",
                                   at |-> Len(results),
                                   ok |-> fastify_resp'.ok])
  /\ UNCHANGED <<caller, call, endpoints, base, cur, express_resp,
                 report, exit_code>>

(***************************************************************************)
(* export_report and the exit of main()                                    *)
(***************************************************************************)
ExportReport ==
  /\ pc = "export"
  /\ report' = <<[total_tests |-> Len(results),
                  passed |-> Passed(results),
                  results |-> results]>>
  /\ pc' = "exit"
  /\ UNCHANGED <<caller, call, results, endpoints, i, base, cur,
                 express_resp, fastify_resp, requests, ret, exit_code>>

Exit ==
  /\ pc = "exit"
  /\ exit_code' = IF ret = "True" THEN <<0>> ELSE <<1>>
  /\ pc' = "exited"
  /\ UNCHANGED <<caller, call, results, endpoints, i, base, cur,
                 express_resp, fastify_resp, requests, ret, report>>

Next ==
  \/ MainStart
  \/ CallRunTestSuite
  \/ CallCompareEndpoint
  \/ NextEndpoint
  \/ Summarize
  \/ ExpressRequest(SuiteResponses)
  \/ FastifyRequest(SuiteResponses)
  \/ ExportReport
  \/ Exit

Spec == Init /\ [][Next]_vars

NextCompare ==
  \/ ExpressRequest(CompareResponses)
  \/ FastifyRequest(CompareResponses)

SpecCompare == InitCompare /\ [][NextCompare]_vars

(***************************************************************************)
(* Properties                                                              *)
(***************************************************************************)
IsError(r) == "error" \in DOMAIN r

Last(rs) == rs[Len(rs)]

\* The results appended by the current (or last) run_test_suite call.
OwnResults == {n \in DOMAIN results : n > base}

LoopCompleted == call = "suite" /\ ret \in {"True", "False", "ZeroDivisionError"}

\* A comparison of two responses has just been recorded as the last result.
Compared ==
  /\ fastify_resp # NoResponse
  /\ fastify_resp.ok
  /\ Len(results) > 0

\* C1: a run_test_suite call returns true iff every endpoint of the list
\* passed to this call produced a result with success = true, and false iff
\* at least one of them produced success = false (empty list and non-empty
\* earlier log included).
C1_ReturnsTrueIffAllSucceeded ==
  LoopCompleted =>
    /\ ret = "True" <=> \A n \in OwnResults : results[n].success
    /\ ret = "False" <=> \E n \in OwnResults : ~results[n].success

\* C2: when main() exits, the exit code is 0 if all endpoint comparisons of
\* the config succeeded and 1 otherwise, for a config of any length.
C2_ExitCodeReflectsSuccess ==
  pc = "exited" =>
    LET all_succeeded == /\ Len(results) = Len(endpoints)
                         /\ \A n \in DOMAIN results : results[n].success
    IN  exit_code = IF all_succeeded THEN <<0>> ELSE <<1>>

\* C3: every non-error result in the log has success = status_match AND
\* body_match, with status_match the equality of the two status codes; the
\* header comparison plays no part.
C3_SuccessIsStatusAndBody ==
  \A n \in DOMAIN results :
    ~IsError(results[n]) =>
      /\ results[n].status_match =
           (results[n].express_status = results[n].fastify_status)
      /\ results[n].success =
           (results[n].status_match /\ results[n].body_match)

C3_Witness ==
  /\ Compared
  /\ ~Last(results).status_match
  /\ Last(results).body_match
  /\ ~Last(results).headers_match
  /\ ~Last(results).success

\* C4: a step in which the reference or the candidate request fails at
\* transport level appends exactly one result, the error variant (method,
\* path, success = false, the error, and nothing else), and inside
\* run_test_suite control goes back to the loop for the next endpoint.
TransportFailure ==
  \/ pc = "express" /\ express_resp' # NoResponse /\ ~express_resp'.ok
  \/ pc = "fastify" /\ fastify_resp' # NoResponse /\ ~fastify_resp'.ok

FailureMessage == IF pc = "express" THEN express_resp'.error ELSE fastify_resp'.error

C4_TransportFailureGivesErrorResult ==
  [][TransportFailure =>
       /\ Len(results') = Len(results) + 1
       /\ SubSeq(results', 1, Len(results)) = results
       /\ DOMAIN Last(results') = {"method", "path", "success", "error"}
       /\ Last(results').method \in {"GET", "POST"}
       /\ Last(results').path = cur.path
       /\ Last(results').success = FALSE
       /\ Last(results').error = FailureMessage
       /\ Last(results').error \in TransportErrors
       /\ call = "suite" =>
            /\ pc' = "loop"
            /\ i' = i + 1
            /\ endpoints' = endpoints
            /\ ret' = ret]_vars

C4_Witness ==
  /\ call = "suite"
  /\ ret = "False"
  /\ Len(results) = base + 2
  /\ IsError(results[base + 1])
  /\ ~IsError(results[base + 2])
  /\ results[base + 2].success

\* C5: body_match follows the reference rule.  When both bodies are JSON it
\* is true iff the parsed values are structurally equal, arrays compared as
\* sets of elements and objects key by key, and a mismatch gives a non-empty
\* body_diff; when either body is not JSON it is true iff the two texts are
\* equal, and the result is not an error result.
MemberKeys(text) == {text.items[n].key : n \in DOMAIN text.items}

Member(text, k) == text.items[LastIndex(text.items, k)].val

RECURSIVE StructEq(_, _)
StructEq(a, b) ==
  /\ a.kind = b.kind
  /\ a.kind = "atom" => a.atom = b.atom
  /\ a.kind = "array" =>
       /\ \A n \in DOMAIN a.items : \E m \in DOMAIN b.items :
            StructEq(a.items[n].val, b.items[m].val)
       /\ \A m \in DOMAIN b.items : \E n \in DOMAIN a.items :
            StructEq(a.items[n].val, b.items[m].val)
  /\ a.kind = "object" =>
       /\ MemberKeys(a) = MemberKeys(b)
       /\ \A k \in MemberKeys(a) : StructEq(Member(a, k), Member(b, k))

C5_BodyMatchRule ==
  Compared =>
    LET r == Last(results)
        e == express_resp.text
        f == fastify_resp.text
    IN  /\ ~IsError(r)
        /\ IF e.kind # "raw" /\ f.kind # "raw"
           THEN /\ r.body_match = StructEq(e, f)
                /\ ~r.body_match =>
                     r.body_diff.kind = "DeepDiff" /\ r.body_diff.keys # {}
           ELSE r.body_match = (e = f)

C5_Witness ==
  /\ Compared
  /\ express_resp.text = Arr12
  /\ fastify_resp.text = Arr21
  /\ Last(results).body_match

\* C6: the log only grows at its end, one result per compare_endpoint call
\* that returns, and the k-th result of a run_test_suite call carries the
\* upper-cased method (GET when absent) and the path of the k-th endpoint;
\* when the loop has completed there is one result per endpoint.
ExpectedMethod(endpoint) ==
  IF "method" \notin DOMAIN endpoint THEN "GET"
  ELSE IF endpoint.method \in {"post", "POST"} THEN "POST" ELSE "GET"

LogFollowsEndpoints ==
  call = "suite" =>
    /\ Len(results) - base <= Len(endpoints)
    /\ \A n \in OwnResults :
         /\ results[n].method = ExpectedMethod(endpoints[n - base])
         /\ results[n].path = endpoints[n - base].path
    /\ LoopCompleted => Len(results) = base + Len(endpoints)

CompareReturns == pc \in {"express", "fastify"} /\ pc' \in {"loop", "idle"}

C6_LogIsOrderedRecord ==
  [][/\ Len(results') >= Len(results)
     /\ SubSeq(results', 1, Len(results)) = results
     /\ Len(results') = Len(results) + (IF CompareReturns THEN 1 ELSE 0)
     /\ LogFollowsEndpoints']_vars

C6_Witness ==
  /\ LoopCompleted
  /\ base = 0
  /\ Len(endpoints) = 2
  /\ "method" \notin DOMAIN endpoints[1]
  /\ "method" \in DOMAIN endpoints[2]
  /\ endpoints[2].method = "post"
  /\ Len(results) = 2
  /\ results[1].method = "GET" /\ results[1].path = "/a"
  /\ results[2].method = "POST" /\ results[2].path = "/b"

\* C7: every run of main() that has started comparing endpoints has written
\* the report, with one entry per comparison performed, by the time the
\* process exits.
C7_ReportWrittenBeforeExit ==
  (pc = "exited" /\ Len(requests) > 0) =>
    /\ report # <<>>
    /\ report[1].total_tests = Len(results)
    /\ report[1].results = results

\* C8: header_diff has a key exactly for each of content-type and
\* content-length whose two values differ (absence counting as a value),
\* recording both values; headers_match is true iff header_diff is empty;
\* other headers such as date never show.
HeaderDiffers(eh, fh, h) ==
  \/ (h \in DOMAIN eh) # (h \in DOMAIN fh)
  \/ h \in DOMAIN eh /\ h \in DOMAIN fh /\ eh[h] # fh[h]

Optional(hs, h) == IF h \in DOMAIN hs THEN <<hs[h]>> ELSE <<>>

C8_HeaderDiffAllowList ==
  Compared =>
    LET r == Last(results)
        eh == express_resp.headers
        fh == fastify_resp.headers
    IN  /\ DOMAIN r.header_diff \subseteq {"content-type", "content-length"}
        /\ \A h \in {"content-type", "content-length"} :
             /\ h \in DOMAIN r.header_diff <=> HeaderDiffers(eh, fh, h)
             /\ h \in DOMAIN r.header_diff =>
                  /\ r.header_diff[h].express = Optional(eh, h)
                  /\ r.header_diff[h].fastify = Optional(fh, h)
        /\ r.headers_match = (DOMAIN r.header_diff = {})

C8_Witness ==
  /\ Compared
  /\ "date" \in DOMAIN express_resp.headers
  /\ "date" \in DOMAIN fastify_resp.headers
  /\ express_resp.headers["date"] # fastify_resp.headers["date"]
  /\ "content-length" \notin DOMAIN express_resp.headers
  /\ "content-length" \in DOMAIN fastify_resp.headers
  /\ DOMAIN Last(results).header_diff = {"content-length"}
  /\ ~Last(results).headers_match

\* C9: requests are issued one at a time: for each endpoint the reference
\* request comes first, the candidate request follows only a reference
\* request that did not fail, no server gets two requests for one endpoint,
\* and a request for an endpoint is issued only when the results of all
\* earlier endpoints are in the log.
C9_SequentialRequests ==
  \A n \in DOMAIN requests :
    LET q == requests[n]
    IN  /\ q.server = "fastify" =>
             /\ n > 1
             /\ requests[n - 1].server = "express"
             /\ requests[n - 1].idx = q.idx
             /\ requests[n - 1].ok
             /\ requests[n - 1].at = q.at
        /\ q.server = "express" /\ n > 1 => requests[n - 1].idx < q.idx
        /\ \A m \in DOMAIN requests :
             (requests[m].idx = q.idx /\ requests[m].server = q.server) => m = n
        /\ call = "suite" => q.at = base + q.idx - 1
        /\ call = "compare" => q.at = base

C9_Witness ==
  /\ call = "suite"
  /\ Len(requests) = 3
  /\ requests[1].idx = 1 /\ ~requests[1].ok
  /\ requests[2].idx = 2 /\ requests[2].server = "express"
  /\ requests[3].idx = 2 /\ requests[3].server = "fastify"
  /\ Len(results) = base + 2

\* C10: when reading an endpoint raises an exception that is not a transport
\* failure (an entry without a path), the exception ends the call: nothing
\* is appended, no request is issued for it or for a later endpoint, and the
\* log keeps the earlier results unchanged.
C10_UnexpectedExceptionAborts ==
  [][(pc = "loop" /\ i <= Len(endpoints) /\ "path" \notin DOMAIN endpoints[i]) =>
       /\ results' = results
       /\ requests' = requests
       /\ ret' = "KeyError"
       /\ pc' = IF caller = "main" THEN "exited" ELSE "idle"
       /\ caller = "main" => exit_code' = <<1>> /\ report' = <<>>]_vars

C10_Witness ==
  /\ ret = "KeyError"
  /\ pc = "idle"
  /\ Len(endpoints) = 2
  /\ i = 1
  /\ "path" \in DOMAIN endpoints[2]
  /\ Len(results) = 1
  /\ base = 1
  /\ requests = <<>>

====
